---- MODULE Spec2Model ----
(***************************************************************************)
(* Model of the ADE expiration monitor (function_app.py, slack.py).        *)
(*                                                                         *)
(* Time is counted in whole hours since an arbitrary epoch; a day is 24    *)
(* hours.  A datetime object is a record [t, aware, off]: t is the local   *)
(* wall-clock reading, aware says whether tzinfo is set and off is the UTC *)
(* offset in hours.  Strings are TLA+ strings; None is the value None.     *)
(***************************************************************************)
EXTENDS Integers, Sequences, FiniteSets, TLC

VARIABLES os_environ, slack_users, source, upstream, calls, now, pc, environments, categorized, raised,
          total_count, pos, lookups, sends, payload, mock_log,
          success_personal, success_channel, outcome

vars == <<os_environ, slack_users, source, upstream, calls, now, pc, environments, categorized, raised,
          total_count, pos, lookups, sends, payload, mock_log,
          success_personal, success_channel, outcome>>

-----------------------------------------------------------------------------
(* Bounds of the model                                                     *)

MaxEnvs == 2          \* records per run in the run specification
MaxClassify == 2      \* records per call in the classifier specification
MaxTags == 2          \* tags per resource group in the owner specification
MaxDigest == 4        \* records per run in the digest specification
MaxTruncate == 7      \* records per run in the truncation specification
MaxProjects == 2      \* projects of the subscription in the fetch specification
MaxPages == 2         \* pages of a project's environment listing

-----------------------------------------------------------------------------
(* Values                                                                  *)

None == "<None>"
Day == 24

CategoryOrder == <<"expired", "tomorrow", "3_days", "7_days", "future">>
Categories == {CategoryOrder[c] : c \in 1..Len(CategoryOrder)}

EmptyCategories == [c \in Categories |-> <<>>]

\* the instant a datetime denotes (only meaningful for aware datetimes)
Instant(dt) == dt.t - dt.off

NoDate == [t |-> 0, aware |-> FALSE, off |-> 0]

-----------------------------------------------------------------------------
(* Raw expiration values.  kind names the form of the value:               *)
(*   none       the key is absent / None                                   *)
(*   empty      ""                                                         *)
(*   int0       a falsy non-string (0)                                     *)
(*   int        a truthy non-string (5)                                    *)
(*   iso_z      "2024-01-10T12:00:00Z"                                     *)
(*   iso_offset "2024-01-10T12:00:00+02:00"                                *)
(*   iso_naive  "2024-01-10T12:00:00"                                      *)
(*   date       "2024-01-10"                                               *)
(*   garbage    "soon"        (no Z at the end, no T)                      *)
(*   garbage_z  "n/aZ"        (ends in Z, not a date-time)                 *)
(*   garbage_t  "TBD"         (contains T, not a date-time)                *)
(*   aware_dt   a datetime object with tzinfo                              *)
(*   naive_dt   a datetime object without tzinfo                           *)

Raw(k, t, o) == [kind |-> k, t |-> t, off |-> o]

IsDatetimeObject(raw) == raw.kind \in {"aware_dt", "naive_dt"}
IsString(raw) ==
    raw.kind \in {"empty", "iso_z", "iso_offset", "iso_naive", "date",
                  "garbage", "garbage_z", "garbage_t"}
\* Python truthiness of the raw value
Truthy(raw) == raw.kind \notin {"none", "empty", "int0"}
EndsWithZ(raw) == raw.kind \in {"iso_z", "garbage_z"}
ContainsT(raw) == raw.kind \in {"iso_z", "iso_offset", "iso_naive", "garbage_t"}

\* datetime.fromisoformat: the string's own offset when it has one, else naive
fromisoformat(raw) ==
    CASE raw.kind = "iso_z" -> [ok |-> TRUE, dt |-> [t |-> raw.t, aware |-> TRUE, off |-> 0]]
      [] raw.kind = "iso_offset" -> [ok |-> TRUE, dt |-> [t |-> raw.t, aware |-> TRUE, off |-> raw.off]]
      [] raw.kind = "iso_naive" -> [ok |-> TRUE, dt |-> [t |-> raw.t, aware |-> FALSE, off |-> 0]]
      [] OTHER -> [ok |-> FALSE, dt |-> NoDate]

\* datetime.strptime(s, '%Y-%m-%d'): midnight of the day, naive
strptime(raw) ==
    IF raw.kind = "date"
    THEN [ok |-> TRUE, dt |-> [t |-> (raw.t \div Day) * Day, aware |-> FALSE, off |-> 0]]
    ELSE [ok |-> FALSE, dt |-> NoDate]

\* dt.replace(tzinfo=timezone.utc)
replace_utc(dt) == [t |-> dt.t, aware |-> TRUE, off |-> 0]

Some(dt) == [some |-> TRUE, dt |-> dt]
Nothing == [some |-> FALSE, dt |-> NoDate]

\* a parser that turns an unparseable string into the epoch instead of None
parse_expiration_date_epoch(raw) ==
    IF ~Truthy(raw) THEN Nothing
    ELSE IF ~IsString(raw) THEN Nothing
    ELSE IF EndsWithZ(raw)
         THEN (IF fromisoformat(raw).ok THEN Some(fromisoformat(raw).dt)
               ELSE Some(replace_utc(NoDate)))
    ELSE IF ContainsT(raw)
         THEN (IF ~fromisoformat(raw).ok THEN Some(replace_utc(NoDate))
               ELSE IF fromisoformat(raw).dt.aware THEN Some(fromisoformat(raw).dt)
               ELSE Some(replace_utc(fromisoformat(raw).dt)))
    ELSE IF strptime(raw).ok THEN Some(replace_utc(strptime(raw).dt))
    ELSE Some(replace_utc(NoDate))

\* parse_expiration_date: every exception inside the try block gives None
parse_expiration_date(raw) ==
    IF ~Truthy(raw) THEN Nothing
    ELSE IF ~IsString(raw) THEN Nothing            \* AttributeError on endswith, caught
    ELSE IF EndsWithZ(raw)
         THEN (IF fromisoformat(raw).ok THEN Some(fromisoformat(raw).dt) ELSE Nothing)
    ELSE IF ContainsT(raw)
         THEN (IF ~fromisoformat(raw).ok THEN Nothing
               ELSE IF fromisoformat(raw).dt.aware THEN Some(fromisoformat(raw).dt)
               ELSE Some(replace_utc(fromisoformat(raw).dt)))
    ELSE IF strptime(raw).ok THEN Some(replace_utc(strptime(raw).dt))
    ELSE Nothing

-----------------------------------------------------------------------------
(* Owner resolution                                                        *)

OwnerKeys == {"created_by", "createdby", "created-by", "owner", "user-email"}

\* str.lower on the tag keys that occur in the model
Lower(key) ==
    CASE key = "Owner" -> "owner"
      [] key = "Created_By" -> "created_by"
      [] key = "User-Email" -> "user-email"
      [] key = "Team" -> "team"
      [] OTHER -> key

\* Python truthiness of a string-or-None value
TruthyStr(s) == s # None /\ s # ""

RECURSIVE FirstOwnerTag(_, _)
\* the loop over tags.items(): the first item, in the mapping's own order,
\* whose lowered key is an owner key
FirstOwnerTag(tags, i) ==
    IF i > Len(tags) THEN [found |-> FALSE, value |-> None]
    ELSE IF Lower(tags[i].key) \in OwnerKeys
         THEN [found |-> TRUE, value |-> tags[i].value]
         ELSE FirstOwnerTag(tags, i + 1)

\* a resolver without the fallback to the 'user' field
extract_owner_email_tags_only(env) ==
    IF Len(env.tags) > 0 /\ FirstOwnerTag(env.tags, 1).found
    THEN FirstOwnerTag(env.tags, 1).value
    ELSE None

extract_owner_email(env) ==
    IF Len(env.tags) > 0 /\ FirstOwnerTag(env.tags, 1).found
    THEN FirstOwnerTag(env.tags, 1).value
    ELSE IF TruthyStr(env.user) THEN env.user
    ELSE None

-----------------------------------------------------------------------------
(* Classification                                                          *)

\* the datetime an expirationDate object already is
DatetimeOf(raw) == [t |-> raw.t, aware |-> raw.kind = "aware_dt", off |-> raw.off]

\* datetime.isoformat(): date, time of day and offset of the local reading
isoformat(dt) == [date |-> dt.t \div Day, hour |-> dt.t % Day, off |-> dt.off]
\* s[:10] of an isoformat string: the date
DatePart(iso) == iso.date

\* the if/elif chain with the first test made inclusive
category_of_inclusive(e, n) ==
    IF e <= n THEN "expired"
    ELSE IF e <= n + Day THEN "tomorrow"
    ELSE IF e <= n + 3 * Day THEN "3_days"
    ELSE IF e <= n + 7 * Day THEN "7_days"
    ELSE "future"

\* the if/elif chain: e is the expiration instant, n the current instant
category_of(e, n) ==
    IF e < n THEN "expired"
    ELSE IF e <= n + Day THEN "tomorrow"
    ELSE IF e <= n + 3 * Day THEN "3_days"
    ELSE IF e <= n + 7 * Day THEN "7_days"
    ELSE "future"

\* a day count that rounds toward zero
days_until_expiration_truncated(e, n) ==
    IF e >= n THEN (e - n) \div Day ELSE 0 - ((n - e) \div Day)

\* timedelta.days of (expiration - now): the floor of the difference in days
days_until_expiration(e, n) == (e - n) \div Day

\* the value stored under "owner_email": owner_email or "unknown"
owner_or_unknown(owner_email) ==
    IF TruthyStr(owner_email) THEN owner_email ELSE "unknown"

\* a record that stores the day count without its sign
env_info_abs_days(env, dt, n) ==
    [name |-> env.name,
     owner_email |-> owner_or_unknown(extract_owner_email(env)),
     expirationDate |-> isoformat(dt),
     daysUntilExpiration |->
         LET d == days_until_expiration(Instant(dt), n) IN IF d < 0 THEN 0 - d ELSE d]

env_info(env, dt, n) ==
    [name |-> env.name,
     owner_email |-> owner_or_unknown(extract_owner_email(env)),
     expirationDate |-> isoformat(dt),
     daysUntilExpiration |-> days_until_expiration(Instant(dt), n)]

RECURSIVE CategorizeLoop_prepend(_, _, _, _)
\* the loop with each record put at the front of its category
CategorizeLoop_prepend(envs, i, n, cats) ==
    IF i > Len(envs) THEN [raised |-> FALSE, categories |-> cats]
    ELSE LET env == envs[i]
             ev == env.expirationDate
         IN IF ~Truthy(ev) THEN CategorizeLoop_prepend(envs, i + 1, n, cats)
            ELSE LET exp == IF IsDatetimeObject(ev) THEN Some(DatetimeOf(ev))
                            ELSE parse_expiration_date(ev)
                 IN IF ~exp.some THEN CategorizeLoop_prepend(envs, i + 1, n, cats)
                    ELSE IF ~exp.dt.aware
                    THEN [raised |-> TRUE, categories |-> EmptyCategories]
                    ELSE LET c == category_of(Instant(exp.dt), n)
                         IN CategorizeLoop_prepend(envs, i + 1, n,
                                [cats EXCEPT ![c] = <<env_info(env, exp.dt, n)>> \o @])

RECURSIVE CategorizeLoop(_, _, _, _)
\* the for loop of categorize_by_expiration from record i on.  expiration - now
\* raises TypeError when the expiration is a naive datetime (now is aware).
CategorizeLoop(envs, i, n, cats) ==
    IF i > Len(envs) THEN [raised |-> FALSE, categories |-> cats]
    ELSE LET env == envs[i]
             ev == env.expirationDate
         IN IF ~Truthy(ev) THEN CategorizeLoop(envs, i + 1, n, cats)
            ELSE LET exp == IF IsDatetimeObject(ev) THEN Some(DatetimeOf(ev))
                            ELSE parse_expiration_date(ev)
                 IN IF ~exp.some THEN CategorizeLoop(envs, i + 1, n, cats)
                    ELSE IF ~exp.dt.aware
                    THEN [raised |-> TRUE, categories |-> EmptyCategories]
                    ELSE LET c == category_of(Instant(exp.dt), n)
                         IN CategorizeLoop(envs, i + 1, n,
                                [cats EXCEPT ![c] = Append(@, env_info(env, exp.dt, n))])

RECURSIVE DriftLoop(_, _, _, _)
\* the loop with the clock read again for every record, an hour later each time
DriftLoop(envs, i, n, cats) ==
    IF i > Len(envs) THEN [raised |-> FALSE, categories |-> cats]
    ELSE LET env == envs[i]
             ev == env.expirationDate
         IN IF ~Truthy(ev) THEN DriftLoop(envs, i + 1, n + 1, cats)
            ELSE LET exp == IF IsDatetimeObject(ev) THEN Some(DatetimeOf(ev))
                            ELSE parse_expiration_date(ev)
                 IN IF ~exp.some THEN DriftLoop(envs, i + 1, n + 1, cats)
                    ELSE IF ~exp.dt.aware
                    THEN [raised |-> TRUE, categories |-> EmptyCategories]
                    ELSE LET c == category_of(Instant(exp.dt), n)
                         IN DriftLoop(envs, i + 1, n + 1,
                                [cats EXCEPT ![c] = Append(@, env_info(env, exp.dt, n))])

categorize_by_expiration_drift(envs, n) == DriftLoop(envs, 1, n, EmptyCategories)

categorize_by_expiration(envs, n) == CategorizeLoop(envs, 1, n, EmptyCategories)

\* an attention count that also counts the future category
total_attention_all(cats) ==
    Len(cats["expired"]) + Len(cats["tomorrow"]) + Len(cats["3_days"])
        + Len(cats["7_days"]) + Len(cats["future"])

\* total_attention of check_expiring_environments
total_attention(cats) ==
    Len(cats["expired"]) + Len(cats["tomorrow"]) + Len(cats["3_days"])
        + Len(cats["7_days"])

-----------------------------------------------------------------------------
(* Notifications                                                           *)

RECURSIVE FlatFrom(_, _)
\* the nested loops "for category in env: for environment in env[category]"
\* as one sequence of [category, env], categories in the dict's key order
FlatFrom(cats, c) ==
    IF c > Len(CategoryOrder) THEN <<>>
    ELSE [k \in 1..Len(cats[CategoryOrder[c]]) |->
            [category |-> CategoryOrder[c], env |-> cats[CategoryOrder[c]][k]]]
         \o FlatFrom(cats, c + 1)

RECURSIVE FlatBack(_, _)
\* the same loops with the categories taken from the last to the first
FlatBack(cats, c) ==
    IF c < 1 THEN <<>>
    ELSE [k \in 1..Len(cats[CategoryOrder[c]]) |->
            [category |-> CategoryOrder[c], env |-> cats[CategoryOrder[c]][k]]]
         \o FlatBack(cats, c - 1)

Flat_reversed(cats) == FlatBack(cats, Len(CategoryOrder))

Flat(cats) == FlatFrom(cats, 1)

\* the test "unknown" in owner_email on the owner values of the model
ContainsUnknown(s) == s \in {"unknown", "unknown.dev@x.com"}

\* the skip test of send_personal_slack_notification
SkipOwner(owner_email) == ~TruthyStr(owner_email) \/ ContainsUnknown(owner_email)

\* the text of a per-owner message or of the error notice (not modelled)
NoContent == <<>>

UserRef(email) == [kind |-> "user", id |-> email]
ChannelRef(id) == [kind |-> "channel", id |-> id]

\* number of parameters of slack.send_slack_message(channel, message)
SendSlackMessageParams == 2
\* outcomes of a call of send_slack_message with nargs positional arguments:
\* True, False (status other than 200), or an exception
SendOutcomes(nargs) ==
    IF nargs # SendSlackMessageParams THEN {"TypeError"} ELSE {"ok", "fail", "raise"}
\* outcomes of get_user_by_email: the id of the Slack user with that email,
\* None when Slack knows no such user, or an exception
LookupOutcomes(email) ==
    {IF email \in slack_users THEN "found" ELSE "notfound", "raise"}

Block(type, role, category, name, owner, detail, counts) ==
    [type |-> type, role |-> role, category |-> category, name |-> name,
     owner_email |-> owner, detail |-> detail, counts |-> counts]

Divider == Block("divider", "", "", 0, "", 0, <<>>)
Healthy == Block("section", "healthy", "", 0, "", 0, <<>>)
Header(expired_count) ==
    Block("header", IF expired_count > 0 THEN "alert" ELSE "warning", "", 0, "", 0, <<>>)
Summary(total, counts) == Block("section", "summary", "", 0, "", total, counts)
Title(category, count) == Block("section", "title", category, 0, "", count, <<>>)
Context == Block("context", "footer", "", 0, "", 0, <<>>)

Abs(x) == IF x < 0 THEN -x ELSE x
Min(a, b) == IF a < b THEN a ELSE b

\* s[:n]
Prefix(s, n) == SubSeq(s, 1, Min(n, Len(s)))

\* the detail line of one entry
EntryDetail(category, env) ==
    IF category = "expired" THEN Abs(env.daysUntilExpiration)
    ELSE IF category = "tomorrow" THEN DatePart(env.expirationDate)
    ELSE env.daysUntilExpiration

Entries(category, envs) ==
    [k \in 1..Len(envs) |->
        Block("section", "entry", category, envs[k].name, envs[k].owner_email,
              EntryDetail(category, envs[k]), <<>>)]

\* one "if count > 0" block of send_slack_notification
SectionOf(cats, category, limit, divider) ==
    IF Len(cats[category]) > 0
    THEN (IF divider THEN <<Divider>> ELSE <<>>)
         \o <<Title(category, Len(cats[category]))>>
         \o Entries(category, Prefix(cats[category], limit))
    ELSE <<>>

\* a digest that also has a section for the future category
ComposeDigest_with_future(cats, total) ==
    IF total = 0 THEN <<Healthy>>
    ELSE <<Header(Len(cats["expired"])),
           Summary(total, <<Len(cats["expired"]), Len(cats["tomorrow"]),
                            Len(cats["3_days"]), Len(cats["7_days"])>>),
           Divider>>
         \o SectionOf(cats, "expired", 5, FALSE)
         \o SectionOf(cats, "tomorrow", 5, TRUE)
         \o SectionOf(cats, "3_days", 3, TRUE)
         \o SectionOf(cats, "7_days", 3, TRUE)
         \o SectionOf(cats, "future", 3, TRUE)
         \o <<Divider, Context>>

\* the payload send_slack_notification composes
ComposeDigest(cats, total) ==
    IF total = 0 THEN <<Healthy>>
    ELSE <<Header(Len(cats["expired"])),
           Summary(total, <<Len(cats["expired"]), Len(cats["tomorrow"]),
                            Len(cats["3_days"]), Len(cats["7_days"])>>),
           Divider>>
         \o SectionOf(cats, "expired", 5, FALSE)
         \o SectionOf(cats, "tomorrow", 5, TRUE)
         \o SectionOf(cats, "3_days", 3, TRUE)
         \o SectionOf(cats, "7_days", 3, TRUE)
         \o <<Divider, Context>>

\* os.environ.get("SLACK_MOCK", "0") in ("1", "true", "True")
mock_mode(environ) ==
    (IF environ.SLACK_MOCK = None THEN "0" ELSE environ.SLACK_MOCK) \in {"1", "true", "True"}

-----------------------------------------------------------------------------
(* Fetching.  upstream describes what Azure holds and how it answers:      *)
(*   devcenters_fail  listing the DevCenters raises                        *)
(*   projects_fail    the DevCenters whose project listing raises          *)
(*   projects         the projects, in listing order; project p has        *)
(*                    uri_ok (a devcenter_uri is known), pages (the pages  *)
(*                    of its environment listing, linked by nextLink) and  *)
(*                    fail = [at, kind]: the request of page at raises     *)
(*                    (at = 0: no request raises)                          *)
(*   tags_fail        the environments whose resource group lookup raises  *)
(* kind is 403_sdk_ok / 403_sdk_fail (HTTPError 403, then the SDK listing  *)
(* answers / raises), attr_alt_ok / attr_alt_fail (AttributeError, then    *)
(* the alternative listing answers / raises) or other (any other error).   *)
(* calls is the log of the requests made to Azure.                         *)

Call(op, target, n) == [op |-> op, target |-> target, n |-> n]

DevCenters == {1, 2}
\* the DevCenter project p belongs to
DevCenterOf(p) == IF p = 1 THEN 1 ELSE 2

NoFail == [at |-> 0, kind |-> "none"]

RECURSIVE PagesUpTo(_, _)
\* the records of pages 1..k, in order
PagesUpTo(pages, k) ==
    IF k = 0 THEN <<>> ELSE PagesUpTo(pages, k - 1) \o pages[k]

\* fetch_environments_from_project: the first page, then the nextLink loop;
\* HTTPError 403 falls back to the SDK listing, AttributeError to the
\* alternative listing, both appending to the list read so far; every other
\* exception reaches the outer handler, which returns []
fetch_environments_from_project(p, proj) ==
    LET np == Len(proj.pages)
        at == proj.fail.at
        kind == proj.fail.kind
        asked == IF at = 0 THEN np ELSE at
        read == PagesUpTo(proj.pages, IF at = 0 THEN np ELSE at - 1)
        all == PagesUpTo(proj.pages, np)
        requests == [k \in 1..asked |-> Call("page", p, k)]
    IN IF at = 0 THEN [envs |-> read, calls |-> requests]
       ELSE IF kind = "403_sdk_ok"
            THEN [envs |-> read \o all, calls |-> Append(requests, Call("sdk", p, 0))]
       ELSE IF kind = "403_sdk_fail"
            THEN [envs |-> <<>>, calls |-> Append(requests, Call("sdk", p, 0))]
       ELSE IF kind = "attr_alt_ok"
            THEN [envs |-> read \o all, calls |-> Append(requests, Call("alt", p, 0))]
       ELSE IF kind = "attr_alt_fail"
            THEN [envs |-> read, calls |-> Append(requests, Call("alt", p, 0))]
       ELSE [envs |-> <<>>, calls |-> requests]

\* fetch_resource_group_tags and the assignment env['tags'] = rg_tags: the
\* tags of the resource group, {} when the lookup raises
Tagged(up, envs) ==
    [k \in 1..Len(envs) |->
        [envs[k] EXCEPT !.tags = IF envs[k].name \in up.tags_fail THEN <<>> ELSE @]]
TagCalls(envs) == [k \in 1..Len(envs) |-> Call("tags", envs[k].name, 0)]

RECURSIVE DevCentersLoop(_, _, _, _)
\* the loop over the DevCenters from DevCenter d on: a project listing that
\* raises skips that DevCenter
DevCentersLoop(up, d, projects, log) ==
    IF d \notin DevCenters THEN [projects |-> projects, calls |-> log]
    ELSE IF d \in up.projects_fail
         THEN DevCentersLoop(up, d + 1, projects, Append(log, Call("projects", d, 0)))
         ELSE DevCentersLoop(up, d + 1,
                  projects \o SelectSeq([p \in 1..Len(up.projects) |-> p],
                                        LAMBDA p : DevCenterOf(p) = d),
                  Append(log, Call("projects", d, 0)))

\* an enumeration that goes on to the projects although the DevCenter listing raised
fetch_all_dev_centers_and_projects_cached(up) ==
    DevCentersLoop(up, 1, <<>>, <<Call("devcenters", 0, 0)>>)

\* fetch_all_dev_centers_and_projects: the indexes of the projects found
fetch_all_dev_centers_and_projects(up) ==
    IF up.devcenters_fail
    THEN [projects |-> <<>>, calls |-> <<Call("devcenters", 0, 0)>>]
    ELSE DevCentersLoop(up, 1, <<>>, <<Call("devcenters", 0, 0)>>)

RECURSIVE ProjectsLoop_abort(_, _, _, _, _)
\* a loop that stops at the first project whose listing gives nothing
ProjectsLoop_abort(up, projects, i, all_environments, log) ==
    IF i > Len(projects) THEN [envs |-> all_environments, calls |-> log]
    ELSE LET p == projects[i]
             proj == up.projects[p]
         IN IF ~proj.uri_ok
            THEN ProjectsLoop_abort(up, projects, i + 1, all_environments, log)
            ELSE LET r == fetch_environments_from_project(p, proj)
                 IN IF r.envs = <<>>
                    THEN [envs |-> all_environments, calls |-> log \o r.calls]
                    ELSE ProjectsLoop_abort(up, projects, i + 1,
                             all_environments \o Tagged(up, r.envs),
                             log \o r.calls \o TagCalls(r.envs))

RECURSIVE ProjectsLoop(_, _, _, _, _)
\* the loop over the projects from the i-th on: a project without a
\* devcenter_uri is skipped, the environments of the others are tagged and
\* appended
ProjectsLoop(up, projects, i, all_environments, log) ==
    IF i > Len(projects) THEN [envs |-> all_environments, calls |-> log]
    ELSE LET p == projects[i]
             proj == up.projects[p]
         IN IF ~proj.uri_ok
            THEN ProjectsLoop(up, projects, i + 1, all_environments, log)
            ELSE LET r == fetch_environments_from_project(p, proj)
                 IN ProjectsLoop(up, projects, i + 1,
                        all_environments \o Tagged(up, r.envs),
                        log \o r.calls \o TagCalls(r.envs))

\* a fetch that looks at the subscription id only after listing the projects
fetch_all_environments_late_check(environ, up) ==
    LET found == fetch_all_dev_centers_and_projects(up)
    IN IF ~TruthyStr(environ.ADE_SUBSCRIPTION_ID)
       THEN [raised |-> TRUE, envs |-> <<>>, calls |-> found.calls]
       ELSE IF found.projects = <<>>
       THEN [raised |-> FALSE, envs |-> <<>>, calls |-> found.calls]
       ELSE [raised |-> FALSE] @@ ProjectsLoop(up, found.projects, 1, <<>>, found.calls)

\* fetch_all_environments: ValueError without a subscription id, before any
\* request; [] when no project is found
fetch_all_environments(environ, up) ==
    IF ~TruthyStr(environ.ADE_SUBSCRIPTION_ID)
    THEN [raised |-> TRUE, envs |-> <<>>, calls |-> <<>>]
    ELSE LET found == fetch_all_dev_centers_and_projects(up)
         IN IF found.projects = <<>>
            THEN [raised |-> FALSE, envs |-> <<>>, calls |-> found.calls]
            ELSE [raised |-> FALSE] @@ ProjectsLoop(up, found.projects, 1, <<>>, found.calls)

-----------------------------------------------------------------------------
(* One run of expirationDateNotice                                         *)

\* the call of fetch_all_environments in check_expiring_environments
Fetch ==
    /\ pc = "start"
    /\ LET r == fetch_all_environments(os_environ, upstream)
       IN /\ calls' = r.calls
          /\ IF r.raised
             THEN /\ pc' = "error_notice"
                  /\ raised' = TRUE
                  /\ UNCHANGED environments
             ELSE /\ pc' = "fetched"
                  /\ environments' = r.envs
                  /\ UNCHANGED raised
    /\ UNCHANGED <<os_environ, slack_users, source, upstream, now, categorized, total_count, pos,
                   lookups, sends, payload, mock_log, success_personal,
                   success_channel, outcome>>

\* the rest of check_expiring_environments: categorize and count
Classify ==
    /\ pc = "fetched"
    /\ LET r == categorize_by_expiration(environments, now)
       IN IF r.raised
          THEN /\ pc' = "error_notice"
               /\ raised' = TRUE
               /\ UNCHANGED <<categorized, total_count>>
          ELSE /\ pc' = "personal"
               /\ categorized' = r.categories
               /\ total_count' = total_attention(r.categories)
               /\ UNCHANGED raised
    /\ pos' = 1
    /\ UNCHANGED <<os_environ, slack_users, source, upstream, calls, now, environments, lookups, sends,
                   payload, mock_log, success_personal, success_channel, outcome>>

\* an iteration that stays on a record whose send reported failure
PersonalStep_retry ==
    /\ pc = "personal"
    /\ pos <= Len(Flat(categorized))
    /\ LET item == Flat(categorized)[pos]
           owner_email == item.env.owner_email
       IN IF SkipOwner(owner_email)
          THEN /\ pos' = pos + 1
               /\ UNCHANGED <<pc, raised, lookups, sends>>
          ELSE \E found \in LookupOutcomes(owner_email) :
                 /\ lookups' = Append(lookups, [email |-> owner_email, name |-> item.env.name,
                                                category |-> item.category, result |-> found])
                 /\ CASE found = "raise" ->
                           /\ pc' = "error_notice"
                           /\ raised' = TRUE
                           /\ UNCHANGED <<pos, sends>>
                      [] found = "notfound" ->
                           /\ pos' = pos + 1
                           /\ UNCHANGED <<pc, raised, sends>>
                      [] found = "found" ->
                           \E sent \in SendOutcomes(2) :
                             /\ sends' = Append(sends,
                                   [to |-> UserRef(owner_email), what |-> "personal",
                                    name |-> item.env.name, category |-> item.category,
                                    content |-> NoContent, result |-> sent])
                             /\ IF sent = "ok"
                                THEN pos' = pos + 1 /\ UNCHANGED <<pc, raised>>
                                ELSE IF sent = "fail"
                                THEN UNCHANGED <<pos, pc, raised>>
                                ELSE pc' = "error_notice" /\ raised' = TRUE /\ UNCHANGED pos
    /\ UNCHANGED <<os_environ, slack_users, source, upstream, calls, now, environments, categorized, total_count,
                   payload, mock_log, success_personal, success_channel, outcome>>

\* one iteration of the loops of send_personal_slack_notification
PersonalStep ==
    /\ pc = "personal"
    /\ pos <= Len(Flat(categorized))
    /\ LET item == Flat(categorized)[pos]
           owner_email == item.env.owner_email
       IN IF SkipOwner(owner_email)
          THEN /\ pos' = pos + 1
               /\ UNCHANGED <<pc, raised, lookups, sends>>
          ELSE \E found \in LookupOutcomes(owner_email) :
                 /\ lookups' = Append(lookups, [email |-> owner_email, name |-> item.env.name,
                                                category |-> item.category, result |-> found])
                 /\ CASE found = "raise" ->
                           /\ pc' = "error_notice"
                           /\ raised' = TRUE
                           /\ UNCHANGED <<pos, sends>>
                      [] found = "notfound" ->
                           /\ pos' = pos + 1
                           /\ UNCHANGED <<pc, raised, sends>>
                      [] found = "found" ->
                           \E sent \in SendOutcomes(2) :
                             /\ sends' = Append(sends,
                                   [to |-> UserRef(owner_email), what |-> "personal",
                                    name |-> item.env.name, category |-> item.category,
                                    content |-> NoContent, result |-> sent])
                             /\ IF sent \in {"ok", "fail"}
                                THEN pos' = pos + 1 /\ UNCHANGED <<pc, raised>>
                                ELSE pc' = "error_notice" /\ raised' = TRUE /\ UNCHANGED pos
    /\ UNCHANGED <<os_environ, slack_users, source, upstream, calls, now, environments, categorized, total_count,
                   payload, mock_log, success_personal, success_channel, outcome>>

\* an end of the loops that empties the lists it went through
PersonalDone_clearing ==
    /\ pc = "personal"
    /\ pos > Len(Flat(categorized))
    /\ success_personal' = FALSE
    /\ categorized' = EmptyCategories
    /\ pc' = "digest"
    /\ UNCHANGED <<os_environ, slack_users, source, upstream, calls, now, environments, raised,
                   total_count, pos, lookups, sends, payload, mock_log,
                   success_channel, outcome>>

\* the loops are over: the function ends without a return statement (None)
PersonalDone ==
    /\ pc = "personal"
    /\ pos > Len(Flat(categorized))
    /\ success_personal' = FALSE
    /\ pc' = "digest"
    /\ UNCHANGED <<os_environ, slack_users, source, upstream, calls, now, environments, categorized, raised,
                   total_count, pos, lookups, sends, payload, mock_log,
                   success_channel, outcome>>

\* a digest step that reports True whatever the call of send_slack_message did
send_slack_notification_optimistic ==
    /\ pc = "digest"
    /\ pc' = "report"
    /\ IF ~TruthyStr(os_environ.SLACK_CHANNEL_ID)
       THEN /\ success_channel' = FALSE
            /\ UNCHANGED <<payload, mock_log, sends>>
       ELSE /\ payload' = ComposeDigest(categorized, total_count)
            /\ IF mock_mode(os_environ)
               THEN /\ mock_log' = Append(mock_log, payload')
                    /\ success_channel' = TRUE
                    /\ UNCHANGED sends
               ELSE \E sent \in SendOutcomes(3) :
                      /\ sends' = Append(sends,
                            [to |-> ChannelRef(os_environ.SLACK_CHANNEL_ID), what |-> "digest",
                             name |-> 0, category |-> "", content |-> payload',
                             result |-> sent])
                      /\ success_channel' = TRUE
                      /\ UNCHANGED mock_log
    /\ UNCHANGED <<os_environ, slack_users, source, upstream, calls, now, environments, categorized, raised,
                   total_count, pos, lookups, success_personal, outcome>>

\* send_slack_notification: False without a channel, the payload logged in
\* mock mode, else one call of send_slack_message inside try/except
send_slack_notification ==
    /\ pc = "digest"
    /\ pc' = "report"
    /\ IF ~TruthyStr(os_environ.SLACK_CHANNEL_ID)
       THEN /\ success_channel' = FALSE
            /\ UNCHANGED <<payload, mock_log, sends>>
       ELSE /\ payload' = ComposeDigest(categorized, total_count)
            /\ IF mock_mode(os_environ)
               THEN /\ mock_log' = Append(mock_log, payload')
                    /\ success_channel' = TRUE
                    /\ UNCHANGED sends
               ELSE \E sent \in SendOutcomes(3) :
                      /\ sends' = Append(sends,
                            [to |-> ChannelRef(os_environ.SLACK_CHANNEL_ID), what |-> "digest",
                             name |-> 0, category |-> "", content |-> payload',
                             result |-> sent])
                      /\ success_channel' = (sent \in {"ok", "fail"})
                      /\ UNCHANGED mock_log
    /\ UNCHANGED <<os_environ, slack_users, source, upstream, calls, now, environments, categorized, raised,
                   total_count, pos, lookups, success_personal, outcome>>

\* the if/else that logs the outcome of the run
Report ==
    /\ pc = "report"
    /\ outcome' = IF success_personal /\ success_channel THEN "succeeded" ELSE "warnings"
    /\ pc' = "done"
    /\ UNCHANGED <<os_environ, slack_users, source, upstream, calls, now, environments, categorized, raised,
                   total_count, pos, lookups, sends, payload, mock_log,
                   success_personal, success_channel>>

\* an except branch that gives up raising when the error notice fails
ErrorNotice_swallow ==
    /\ pc = "error_notice"
    /\ \E sent \in SendOutcomes(2) :
         /\ sends' = Append(sends,
               [to |-> ChannelRef(os_environ.SLACK_CHANNEL_ID), what |-> "error",
                name |-> 0, category |-> "", content |-> NoContent, result |-> sent])
         /\ outcome' = IF sent = "raise" THEN "warnings" ELSE "failed"
    /\ pc' = "done"
    /\ UNCHANGED <<os_environ, slack_users, source, upstream, calls, now, environments,
                   categorized, raised, total_count, pos, lookups, payload, mock_log,
                   success_personal, success_channel>>

\* the except branch: one error notice, then the error is raised again
ErrorNotice ==
    /\ pc = "error_notice"
    /\ \E sent \in SendOutcomes(2) :
         sends' = Append(sends,
            [to |-> ChannelRef(os_environ.SLACK_CHANNEL_ID), what |-> "error",
             name |-> 0, category |-> "", content |-> NoContent, result |-> sent])
    /\ outcome' = "failed"
    /\ pc' = "done"
    /\ UNCHANGED <<os_environ, slack_users, source, upstream, calls, now, environments, categorized, raised,
                   total_count, pos, lookups, payload, mock_log,
                   success_personal, success_channel>>

-----------------------------------------------------------------------------
(* Inputs                                                                  *)

NoPayload == <<>>

\* sequences of at most n elements of S
SeqsUpTo(S, n) == UNION {[1..k -> S] : k \in 0..n}

\* the records of a fetch result: record i carries the name i
Named(f) ==
    [i \in DOMAIN f |-> [name |-> i, expirationDate |-> f[i].expirationDate,
                         tags |-> f[i].tags, user |-> f[i].user]]

Tag(k, v) == [key |-> k, value |-> v]
EnvOf(raw, tags, user) == [expirationDate |-> raw, tags |-> tags, user |-> user]

Nows == {240, 241}

ZTimes == {192, 234, 239, 240, 241, 264, 265, 312, 313, 408, 409}

ClassifyRaws ==
    {Raw("iso_z", t, 0) : t \in ZTimes}
    \cup {Raw("iso_offset", t, o) : t \in {241, 266}, o \in {2, -5}}
    \cup {Raw("iso_naive", t, 0) : t \in {239, 265}}
    \cup {Raw("date", t, 0) : t \in {240, 264}}
    \cup {Raw("aware_dt", 241, 2), Raw("aware_dt", 240, 0), Raw("aware_dt", 500, 0)}
    \cup {Raw("naive_dt", 300, 0)}
    \cup {Raw(k, 0, 0) : k \in {"none", "empty", "int0", "int", "garbage",
                                "garbage_z", "garbage_t"}}

ClassifyPalette == {EnvOf(raw, <<>>, "u-1") : raw \in ClassifyRaws}

TagKeys == {"Owner", "created_by", "Team", "user-email"}
TagValues == {"a@x.com", "b@x.com", ""}
Users == {None, "", "u-1", "unknown"}

\* tag mappings in insertion order: no key occurs twice
TagMaps ==
    {m \in SeqsUpTo({Tag(k, v) : k \in TagKeys, v \in TagValues}, MaxTags) :
        \A i, j \in DOMAIN m : i # j => m[i].key # m[j].key}

OwnerPalette == {EnvOf(Raw("iso_z", 250, 0), m, u) : m \in TagMaps, u \in Users}

OwnerTags == <<Tag("owner", "a@x.com")>>
RunPalette ==
    {EnvOf(Raw("iso_z", 192, 0), OwnerTags, None),
     EnvOf(Raw("iso_z", 192, 0), <<>>, None),
     EnvOf(Raw("iso_z", 250, 0), <<Tag("owner", "unknown.dev@x.com")>>, None),
     EnvOf(Raw("iso_z", 300, 0), <<>>, "b@x.com"),
     EnvOf(Raw("iso_z", 500, 0), OwnerTags, None),
     EnvOf(Raw("garbage", 0, 0), OwnerTags, None),
     EnvOf(Raw("naive_dt", 300, 0), OwnerTags, None)}

DigestPalette ==
    {EnvOf(Raw("iso_z", t, 0), <<>>, None) : t \in {192, 250, 300, 400, 500}}

TruncatePalette ==
    {EnvOf(Raw("iso_z", t, 0), <<>>, None) : t \in {192, 300}}

SlackDirectories == {{"a@x.com", "b@x.com", "unknown.dev@x.com"}, {"b@x.com"}}

Environs ==
    [ADE_SUBSCRIPTION_ID : {None, "sub-1"},
     SLACK_CHANNEL_ID : {None, "C1"},
     SLACK_MOCK : {None, "1"}]

\* a subscription whose one project lists the records src on one page
SinglePage(src) ==
    [devcenters_fail |-> FALSE, projects_fail |-> {},
     projects |-> <<[uri_ok |-> TRUE, pages |-> <<src>>, fail |-> NoFail]>>,
     tags_fail |-> {}]

FailKinds == {"403_sdk_ok", "403_sdk_fail", "attr_alt_ok", "attr_alt_fail", "other"}

\* what can go wrong with one project: nothing, no devcenter_uri, or the
\* request of one page raising
ProjectShapes ==
    {[uri_ok |-> TRUE, fail |-> NoFail], [uri_ok |-> FALSE, fail |-> NoFail]}
    \cup {[uri_ok |-> TRUE, fail |-> [at |-> k, kind |-> x]] : k \in 1..MaxPages, x \in FailKinds}

\* the record the listing of a project gives for environment n, with the
\* tags of its resource group
FetchEnv(n) ==
    [name |-> n, expirationDate |-> Raw("iso_z", 250, 0), tags |-> OwnerTags, user |-> None]

\* project p lists MaxPages pages of one environment each
PagesFor(p) == [q \in 1..MaxPages |-> <<FetchEnv((p - 1) * MaxPages + q)>>]
\* the project an environment of the fetch specification belongs to
ProjectOfName(n) == ((n - 1) \div MaxPages) + 1

ProjectsFor(shapes) ==
    [p \in DOMAIN shapes |->
        [uri_ok |-> shapes[p].uri_ok, pages |-> PagesFor(p), fail |-> shapes[p].fail]]

Upstreams ==
    {[devcenters_fail |-> df, projects_fail |-> pf, projects |-> ProjectsFor(shapes),
      tags_fail |-> tf] :
        df \in BOOLEAN, pf \in SUBSET DevCenters,
        shapes \in SeqsUpTo(ProjectShapes, MaxProjects), tf \in {{}, {1}}}

\* subscriptions of one project, with the DevCenter listing answering or raising
PagedUpstreams ==
    {[devcenters_fail |-> df, projects_fail |-> {}, projects |-> ProjectsFor(<<shape>>),
      tags_fail |-> {}] :
        df \in BOOLEAN, shape \in ProjectShapes}

RECURSIVE AllEnvs(_, _)
\* every environment of the subscription, projects 1..k in order
AllEnvs(projects, k) ==
    IF k = 0 THEN <<>>
    ELSE AllEnvs(projects, k - 1) \o PagesUpTo(projects[k].pages, Len(projects[k].pages))

FullEnviron == [ADE_SUBSCRIPTION_ID |-> "sub-1", SLACK_CHANNEL_ID |-> "C1", SLACK_MOCK |-> None]

\* the state of a run before its first step
Fresh ==
    /\ categorized = EmptyCategories
    /\ raised = FALSE
    /\ total_count = 0
    /\ pos = 1
    /\ lookups = <<>>
    /\ sends = <<>>
    /\ payload = NoPayload
    /\ mock_log = <<>>
    /\ success_personal = FALSE
    /\ success_channel = FALSE
    /\ outcome = "none"

-----------------------------------------------------------------------------
(* Specifications                                                          *)

\* a whole run of expirationDateNotice
Init ==
    /\ os_environ \in Environs
    /\ slack_users \in SlackDirectories
    /\ source \in {Named(f) : f \in SeqsUpTo(RunPalette, MaxEnvs)}
    /\ now = 240
    /\ upstream = SinglePage(source)
    /\ calls = <<>>
    /\ pc = "start"
    /\ environments = <<>>
    /\ Fresh

Next ==
    \/ Fetch
    \/ Classify
    \/ PersonalStep
    \/ PersonalDone
    \/ send_slack_notification
    \/ Report
    \/ ErrorNotice

Spec == Init /\ [][Next]_vars

\* categorize_by_expiration on every form of expiration value
InitClassify ==
    /\ os_environ = FullEnviron
    /\ slack_users = {}
    /\ source \in {Named(f) : f \in SeqsUpTo(ClassifyPalette, MaxClassify)}
    /\ now \in Nows
    /\ upstream = SinglePage(source)
    /\ calls = fetch_all_environments(os_environ, upstream).calls
    /\ pc = "fetched"
    /\ environments = source
    /\ Fresh

NextClassify == Classify

SpecClassify == InitClassify /\ [][NextClassify]_vars

\* categorize_by_expiration on one record with every tag mapping
InitOwner ==
    /\ os_environ = FullEnviron
    /\ slack_users = {}
    /\ source \in {Named(f) : f \in SeqsUpTo(OwnerPalette, 1)}
    /\ now = 240
    /\ upstream = SinglePage(source)
    /\ calls = fetch_all_environments(os_environ, upstream).calls
    /\ pc = "fetched"
    /\ environments = source
    /\ Fresh

NextOwner == Classify

SpecOwner == InitOwner /\ [][NextOwner]_vars

\* the run from the fetch result on, with records of every category
InitDigest ==
    /\ os_environ \in {e \in Environs : e.ADE_SUBSCRIPTION_ID = "sub-1"}
    /\ slack_users = {}
    /\ source \in {Named(f) : f \in SeqsUpTo(DigestPalette, MaxDigest)}
    /\ now = 240
    /\ upstream = SinglePage(source)
    /\ calls = fetch_all_environments(os_environ, upstream).calls
    /\ pc = "fetched"
    /\ environments = source
    /\ Fresh

NextDigest ==
    \/ Classify
    \/ PersonalStep
    \/ PersonalDone
    \/ send_slack_notification
    \/ Report

SpecDigest == InitDigest /\ [][NextDigest]_vars

\* the same with enough records of one category to exceed a section's limit
InitTruncate ==
    /\ os_environ \in {e \in Environs : e.ADE_SUBSCRIPTION_ID = "sub-1"}
    /\ slack_users = {}
    /\ source \in {Named(f) : f \in SeqsUpTo(TruncatePalette, MaxTruncate)}
    /\ now = 240
    /\ upstream = SinglePage(source)
    /\ calls = fetch_all_environments(os_environ, upstream).calls
    /\ pc = "fetched"
    /\ environments = source
    /\ Fresh

NextTruncate ==
    \/ Classify
    \/ PersonalStep
    \/ PersonalDone
    \/ send_slack_notification
    \/ Report

SpecTruncate == InitTruncate /\ [][NextTruncate]_vars

\* fetch_all_environments on subscriptions with failing requests
InitFetch ==
    /\ os_environ \in {[FullEnviron EXCEPT !.ADE_SUBSCRIPTION_ID = v] : v \in {None, "", "sub-1"}}
    /\ slack_users = {}
    /\ upstream \in Upstreams
    /\ source = AllEnvs(upstream.projects, Len(upstream.projects))
    /\ calls = <<>>
    /\ now = 240
    /\ pc = "start"
    /\ environments = <<>>
    /\ Fresh

NextFetch == Fetch

SpecFetch == InitFetch /\ [][NextFetch]_vars

\* a whole run over a subscription with a paged listing and failing requests
InitPaged ==
    /\ os_environ \in Environs
    /\ slack_users \in SlackDirectories
    /\ upstream \in PagedUpstreams
    /\ source = AllEnvs(upstream.projects, Len(upstream.projects))
    /\ now = 240
    /\ calls = <<>>
    /\ pc = "start"
    /\ environments = <<>>
    /\ Fresh

NextPaged == Next

SpecPaged == InitPaged /\ [][NextPaged]_vars

-----------------------------------------------------------------------------
(* Properties of the classifier                                            *)

\* the map categorize_by_expiration returned is in categorized
Returned == pc = "personal" /\ ~raised

\* record name occurs in category c of the returned map
InCategory(c, name) == \E k \in 1..Len(categorized[c]) : categorized[c][k].name = name
\* the places of the returned map that hold record name
Places(name) ==
    {<<c, k>> \in Categories \X (1..Len(environments)) :
        k <= Len(categorized[c]) /\ categorized[c][k].name = name}

\* forms of expiration value that denote an instant, and the instant denoted
HasInstant(raw) == raw.kind \in {"iso_z", "iso_offset", "iso_naive", "date", "aware_dt"}
InstantOfRaw(raw) ==
    IF raw.kind \in {"iso_offset", "aware_dt"} THEN raw.t - raw.off ELSE raw.t
\* forms of expiration value that are absent, empty or unparseable
Unparseable(raw) ==
    raw.kind \in {"none", "empty", "int0", "int", "garbage", "garbage_z", "garbage_t"}

\* C1: a record whose expiration denotes the instant e is in exactly one
\* category of the returned map: expired iff e < now, tomorrow iff
\* now <= e <= now + 1 day, 3_days iff now + 1 day < e <= now + 3 days,
\* 7_days iff now + 3 days < e <= now + 7 days, future iff e > now + 7 days.
C1_Boundaries ==
    Returned =>
        \A i \in 1..Len(environments) :
            HasInstant(environments[i].expirationDate) =>
                LET e == InstantOfRaw(environments[i].expirationDate)
                IN /\ Cardinality(Places(i)) = 1
                   /\ InCategory("expired", i) <=> e < now
                   /\ InCategory("tomorrow", i) <=> (now <= e /\ e <= now + Day)
                   /\ InCategory("3_days", i) <=> (now + Day < e /\ e <= now + 3 * Day)
                   /\ InCategory("7_days", i) <=> (now + 3 * Day < e /\ e <= now + 7 * Day)
                   /\ InCategory("future", i) <=> e > now + 7 * Day

\* a record expiring at exactly now is in tomorrow, next to a record with an
\* offset that expired an hour ago
C1_Witness ==
    /\ Returned
    /\ \E i, j \in 1..Len(environments) :
          /\ environments[i].expirationDate = Raw("iso_z", now, 0)
          /\ InCategory("tomorrow", i)
          /\ environments[j].expirationDate.kind = "iso_offset"
          /\ InstantOfRaw(environments[j].expirationDate) < now
          /\ InCategory("expired", j)

\* C2: a record whose expiration is absent, empty or unparseable is in no
\* category of the returned map and is not counted in the attention total.
C2_Dropped ==
    Returned =>
        /\ \A i \in 1..Len(environments) :
              Unparseable(environments[i].expirationDate) =>
                  \A c \in Categories : ~InCategory(c, i)
        /\ total_count =
              Cardinality({i \in 1..Len(environments) :
                              /\ ~Unparseable(environments[i].expirationDate)
                              /\ ~InCategory("future", i)})

C2_Witness ==
    /\ Returned
    /\ total_count = 1
    /\ \E i \in 1..Len(environments) :
          /\ environments[i].expirationDate.kind = "garbage_t"
          /\ \A c \in Categories : ~InCategory(c, i)

\* C3: whatever the form of each expiration value, categorize_by_expiration
\* completes without raising.
C3_NeverRaises == ~raised

-----------------------------------------------------------------------------
(* Properties of owner resolution                                          *)

PriorityOrder == <<"created_by", "createdby", "created-by", "owner", "user-email">>
Rank(key) == CHOOSE r \in 1..Len(PriorityOrder) : PriorityOrder[r] = Lower(key)

\* the tags whose key is a recognised owner key
Matching(tags) == {i \in 1..Len(tags) : Lower(tags[i].key) \in OwnerKeys}
\* the matching tag whose key comes first in the priority order
Best(tags) ==
    CHOOSE i \in Matching(tags) : \A j \in Matching(tags) : Rank(tags[i].key) <= Rank(tags[j].key)

\* the owner_email the one categorized record carries
Carried == Flat(categorized)[1].env.owner_email

OwnerClassified == Returned /\ Len(environments) = 1 /\ Len(Flat(categorized)) = 1

\* C4: of several recognised owner keys the value of the key that is earliest
\* in created_by, createdby, created-by, owner, user-email is the owner,
\* whatever the order of the tag mapping.
C4_Priority ==
    OwnerClassified =>
        LET tags == environments[1].tags
        IN (Matching(tags) # {} /\ tags[Best(tags)].value # "") =>
               Carried = tags[Best(tags)].value

\* the owner is unresolved: no recognised tag key and no fallback identifier
Unresolved(env) == Matching(env.tags) = {} /\ env.user \in {None, ""}

\* C5 as stated: the fallback identifier is the owner when no tag key matches,
\* and the record carries 'unknown' exactly when the owner is unresolved.
C5_SentinelIffUnresolved ==
    OwnerClassified =>
        LET env == environments[1]
        IN /\ (Matching(env.tags) = {} /\ env.user \notin {None, ""}) => Carried = env.user
           /\ Carried = "unknown" <=> Unresolved(env)

\* C5 amended: the fallback identifier is the owner when no tag key matches;
\* the record carries 'unknown' when the owner is unresolved, and otherwise
\* only when the resolved value is empty or is itself the text 'unknown'.
C5_Fallback ==
    OwnerClassified =>
        LET env == environments[1]
        IN /\ (Matching(env.tags) = {} /\ env.user \notin {None, ""}) => Carried = env.user
           /\ Unresolved(env) => Carried = "unknown"
           /\ Carried = "unknown" =>
                 \/ Unresolved(env)
                 \/ Matching(env.tags) = {} /\ env.user = "unknown"
                 \/ \E i \in Matching(env.tags) : env.tags[i].value \in {"", "unknown"}

C5_Witness ==
    /\ OwnerClassified
    /\ Len(environments[1].tags) > 0
    /\ Matching(environments[1].tags) = {}
    /\ environments[1].user = "u-1"
    /\ Carried = "u-1"

-----------------------------------------------------------------------------
(* Properties of the notifications                                         *)

AttentionCategories == {"expired", "tomorrow", "3_days", "7_days"}

PersonalSends == {k \in 1..Len(sends) : sends[k].what = "personal"}

\* C6: every recipient lookup and every per-owner message is about a record
\* of expired, tomorrow, 3_days or 7_days, never about a record of future.
C6_NoFutureMessages ==
    /\ \A k \in 1..Len(lookups) : lookups[k].category \in AttentionCategories
    /\ \A k \in PersonalSends : sends[k].category \in AttentionCategories

\* the fetch of this run succeeded, no lookup or send of it raised, and the
\* run is over
FetchedAndOver ==
    /\ pc = "done"
    /\ outcome # "failed"
    /\ environments = source
    /\ TruthyStr(os_environ.ADE_SUBSCRIPTION_ID)

\* C7: after a run whose fetch succeeded (and that no error cut short), every
\* record of a non-future category whose owner_email is not the sentinel
\* 'unknown' and whose owner Slack knows has a message to that owner handed
\* to the Messenger, and no message is about a record whose owner is the
\* sentinel.
C7_ResolvedOwnersNotified ==
    FetchedAndOver =>
        /\ \A p \in 1..Len(Flat(categorized)) :
              LET item == Flat(categorized)[p]
              IN (/\ item.category \in AttentionCategories
                  /\ item.env.owner_email # "unknown"
                  /\ item.env.owner_email \in slack_users) =>
                     \E k \in PersonalSends :
                        /\ sends[k].name = item.env.name
                        /\ sends[k].to = UserRef(item.env.owner_email)
        /\ \A k \in PersonalSends : sends[k].to # UserRef("unknown")

\* the digest has been composed
Composed == pc \in {"report", "done"} /\ TruthyStr(os_environ.SLACK_CHANNEL_ID)

AttentionCount ==
    Len(categorized["expired"]) + Len(categorized["tomorrow"])
        + Len(categorized["3_days"]) + Len(categorized["7_days"])

\* C8: with no record in expired, tomorrow, 3_days and 7_days the digest is
\* the single 'all healthy' notice, whatever the number of future records.
C8_AllHealthy ==
    (Composed /\ AttentionCount = 0) => payload = <<Healthy>>

C8_Witness ==
    /\ Composed
    /\ AttentionCount = 0
    /\ Len(categorized["future"]) >= 2
    /\ payload = <<Healthy>>

IsTitle(b) == b.role = "title"
IsEntry(b) == b.role = "entry"
IsSummary(b) == b.role = "summary"

\* the entries the digest lists for category c, and their positions
EntryPositions(c) == {k \in 1..Len(payload) : IsEntry(payload[k]) /\ payload[k].category = c}
\* the listing limit of a section
Limit(c) == IF c \in {"expired", "tomorrow"} THEN 5 ELSE 3

\* C9: a section lists the first Limit entries of its category and, when the
\* category holds more, ends with a note giving the number of omitted ones.
C9_TruncationNote ==
    (Composed /\ AttentionCount > 0) =>
        \A c \in AttentionCategories :
            /\ Cardinality(EntryPositions(c)) = Min(Limit(c), Len(categorized[c]))
            /\ \A k \in EntryPositions(c) :
                  \E n \in 1..Min(Limit(c), Len(categorized[c])) :
                      payload[k].name = categorized[c][n].name
            /\ Len(categorized[c]) > Limit(c) =>
                  \E k \in 1..Len(payload) :
                      /\ payload[k].role = "more"
                      /\ payload[k].category = c
                      /\ payload[k].detail = Len(categorized[c]) - Limit(c)
                      /\ \A e \in EntryPositions(c) : e < k

\* the categories of the section titles of the digest, in order
TitleCategories ==
    LET titles == SelectSeq(payload, IsTitle)
    IN [k \in 1..Len(titles) |-> titles[k].category]

NonEmpty(c) == Len(categorized[c]) > 0
\* the non-empty categories among expired, tomorrow, 3_days, 7_days, in order
ExpectedTitles == SelectSeq(SubSeq(CategoryOrder, 1, 4), NonEmpty)

\* the title that governs position k: the last title at or before k
TitleBefore(k) ==
    LET ts == {t \in 1..k : IsTitle(payload[t])}
    IN IF ts = {} THEN 0 ELSE CHOOSE t \in ts : \A u \in ts : u <= t

\* C10: with a non-zero attention count the digest has the aggregate count
\* line, then one section for each non-empty category and none for an empty
\* one, in the order expired, tomorrow, 3_days, 7_days, and it lists no record
\* of future.
C10_Sections ==
    (Composed /\ AttentionCount > 0) =>
        /\ TitleCategories = ExpectedTitles
        /\ \E s \in 1..Len(payload) :
              /\ IsSummary(payload[s])
              /\ payload[s].detail = AttentionCount
              /\ \A k \in 1..Len(payload) :
                    IsSummary(payload[k]) => k = s
              /\ \A k \in 1..Len(payload) :
                    (IsTitle(payload[k]) \/ IsEntry(payload[k])) => s < k
        /\ \A k \in 1..Len(payload) :
              IsEntry(payload[k]) =>
                 /\ TitleBefore(k) # 0
                 /\ payload[TitleBefore(k)].category = payload[k].category
                 /\ InCategory(payload[k].category, payload[k].name)
                 /\ ~InCategory("future", payload[k].name)
        /\ \A c \in AttentionCategories :
              NonEmpty(c) => EntryPositions(c) # {}

C10_Witness ==
    /\ Composed
    /\ Len(categorized["future"]) >= 1
    /\ Len(categorized["tomorrow"]) = 0
    /\ TitleCategories = <<"expired", "3_days", "7_days">>

-----------------------------------------------------------------------------
(* Properties of fetching                                                  *)

\* C17: without a subscription id fetch_all_environments fails at once:
\* no DevCenter, project, environment page or tag request is made.
C17_NoFetchWithoutSubscription ==
    (pc # "start" /\ os_environ.ADE_SUBSCRIPTION_ID \in {None, ""}) =>
        /\ raised
        /\ pc = "error_notice"
        /\ calls = <<>>
        /\ environments = <<>>

C17_Witness ==
    /\ pc = "error_notice"
    /\ os_environ.ADE_SUBSCRIPTION_ID = ""
    /\ Len(upstream.projects) >= 1
    /\ ~upstream.devcenters_fail
    /\ calls = <<>>

\* the names of the records fetch_all_environments returned
FetchedNames == {environments[k].name : k \in 1..Len(environments)}

\* project p is found by fetch_all_dev_centers_and_projects and has a
\* devcenter_uri
Listed(p) ==
    /\ ~upstream.devcenters_fail
    /\ DevCenterOf(p) \notin upstream.projects_fail
    /\ upstream.projects[p].uri_ok

\* C18: when the request of a later page of a project raises, the records of
\* the pages already read are still returned.
C18_PartialPagesKept ==
    pc = "fetched" =>
        \A p \in 1..Len(upstream.projects) :
            (Listed(p) /\ upstream.projects[p].fail.at > 1) =>
                LET read == PagesUpTo(upstream.projects[p].pages,
                                      upstream.projects[p].fail.at - 1)
                IN \A k \in 1..Len(read) : read[k].name \in FetchedNames

\* C19: a failure in one project, or in the project listing of one
\* DevCenter, leaves the other sources alone: the environments of every
\* project that is found and whose listing does not fail are returned, once
\* each, and the result is in project order.
C19_OtherSourcesKept ==
    pc = "fetched" =>
        /\ \A p \in 1..Len(upstream.projects) :
              (Listed(p) /\ upstream.projects[p].fail = NoFail) =>
                  LET all == PagesUpTo(upstream.projects[p].pages,
                                       Len(upstream.projects[p].pages))
                  IN \A k \in 1..Len(all) :
                        Cardinality({i \in 1..Len(environments) :
                                        environments[i].name = all[k].name}) = 1
        /\ \A i, j \in 1..Len(environments) :
              i < j => ProjectOfName(environments[i].name) <= ProjectOfName(environments[j].name)

C19_Witness ==
    /\ pc = "fetched"
    /\ Len(upstream.projects) = 2
    /\ upstream.projects_fail = {}
    /\ upstream.projects[1].fail = [at |-> 1, kind |-> "other"]
    /\ upstream.projects[2].fail = NoFail
    /\ Len(environments) = MaxPages
    /\ \A k \in 1..Len(environments) : ProjectOfName(environments[k].name) = 2

-----------------------------------------------------------------------------
(* Properties of the run                                                   *)

DigestSends == {k \in 1..Len(sends) : sends[k].what = "digest"}
ErrorSends == {k \in 1..Len(sends) : sends[k].what = "error"}

\* the place of a category in the fixed order
CategoryIndex(c) == CHOOSE k \in 1..Len(CategoryOrder) : CategoryOrder[k] = c
\* message a comes before message b in category order, then fetch order
Before(a, b) ==
    \/ CategoryIndex(a.category) < CategoryIndex(b.category)
    \/ a.category = b.category /\ a.name < b.name

\* classification of the fetched environments has finished
ClassificationDone ==
    /\ pc \notin {"start", "fetched"}
    /\ environments = fetch_all_environments(os_environ, upstream).envs
    /\ ~categorize_by_expiration(environments, now).raised
    /\ categorized = categorize_by_expiration(environments, now).categories

\* the digest step is over: the digest was sent, logged, or had no channel
DigestStepOver ==
    \/ DigestSends # {}
    \/ mock_log # <<>>
    \/ ~TruthyStr(os_environ.SLACK_CHANNEL_ID)

C11_Order ==
    /\ (PersonalSends # {} \/ DigestSends # {} \/ lookups # <<>> \/ mock_log # <<>>)
          => ClassificationDone
    /\ \A k, l \in PersonalSends : k < l => Before(sends[k], sends[l])
    /\ \A k, l \in 1..Len(lookups) : k < l => Before(lookups[k], lookups[l])
    /\ \A k \in DigestSends : \A l \in PersonalSends : l < k
    /\ (DigestSends # {} \/ mock_log # <<>>) => pc \in {"report", "done"}
    /\ outcome \in {"succeeded", "warnings"} => (pc = "done" /\ DigestStepOver)

C11_Step ==
    /\ Len(sends') <= Len(sends) + 1
    /\ Len(lookups') <= Len(lookups) + 1
    /\ outcome # "none" => (sends' = sends /\ lookups' = lookups /\ mock_log' = mock_log)
    /\ (sends' # sends /\ sends'[Len(sends')].what = "digest") => pc = "digest"

\* C11: a run goes Fetch, Classify, per-owner dispatch, digest dispatch,
\* Report: no per-owner or digest message before classification has
\* finished, per-owner dispatches one at a time in category order and then
\* fetch order, the digest after the last per-owner dispatch and before the
\* outcome is reported.
C11_LinearOrder == [](C11_Order) /\ [][C11_Step]_vars

C11_Witness ==
    /\ pc = "done"
    /\ outcome = "warnings"
    /\ Len(sends) = 3
    /\ sends[1].what = "personal" /\ sends[1].category = "expired"
    /\ sends[2].what = "personal" /\ sends[2].category = "3_days"
    /\ sends[3].what = "digest"

\* C12: when the fetch fails the run classifies nothing, dispatches no
\* per-owner message and no digest, attempts exactly one error notice to the
\* monitoring destination and reports failure, also when that notice fails.
C12_FetchFailure ==
    (~TruthyStr(os_environ.ADE_SUBSCRIPTION_ID)) =>
        /\ categorized = EmptyCategories
        /\ lookups = <<>>
        /\ PersonalSends = {} /\ DigestSends = {}
        /\ payload = NoPayload /\ mock_log = <<>>
        /\ pc \in {"start", "error_notice", "done"}
        /\ pc \in {"start", "error_notice"} => (sends = <<>> /\ outcome = "none")
        /\ pc = "done" =>
              /\ Len(sends) = 1
              /\ sends[1].what = "error"
              /\ sends[1].to = ChannelRef(os_environ.SLACK_CHANNEL_ID)
              /\ outcome = "failed"

C12_Witness ==
    /\ pc = "done"
    /\ ~TruthyStr(os_environ.ADE_SUBSCRIPTION_ID)
    /\ Len(sends) = 1
    /\ sends[1].result = "raise"
    /\ outcome = "failed"

\* a record send_personal_slack_notification does not skip
Addressed(item) == ~SkipOwner(item.env.owner_email)

\* the fetch and the classification of this run succeeded and the run is over
ClassifiedAndOver ==
    /\ pc = "done"
    /\ TruthyStr(os_environ.ADE_SUBSCRIPTION_ID)
    /\ ~categorize_by_expiration(environments, now).raised

\* C13: a per-owner dispatch that fails (the send reports failure, or the
\* lookup or the send raises) does not abort the run: every later record is
\* still dispatched, the digest step is still taken and the run does not end
\* failed.
C13_PartialFailureTolerated ==
    ClassifiedAndOver =>
        /\ \A p \in 1..Len(Flat(categorized)) :
              Addressed(Flat(categorized)[p]) =>
                  \E k \in 1..Len(lookups) : lookups[k].name = Flat(categorized)[p].env.name
        /\ DigestStepOver
        /\ outcome = "warnings" \/ outcome = "succeeded"

\* some dispatch of the run failed
DispatchFailed ==
    \/ \E k \in 1..Len(lookups) : lookups[k].result = "raise"
    \/ \E k \in 1..Len(sends) : sends[k].result # "ok"
    \/ ~TruthyStr(os_environ.SLACK_CHANNEL_ID)

\* C14: when the fetch succeeds the reported outcome is 'succeeded' if no
\* per-owner dispatch and not the digest dispatch failed, and 'completed with
\* warnings' if one of them failed.
C14_Outcome ==
    (pc = "done" /\ outcome # "failed") =>
        /\ ~DispatchFailed => outcome = "succeeded"
        /\ DispatchFailed => outcome = "warnings"

\* C15: with the fetch succeeded, a channel configured and simulate-send
\* off, exactly one digest message with the composed digest is handed to the
\* Messenger's send for the monitoring destination.
C15_OneDigestHanded ==
    (pc = "done" /\ outcome # "failed" /\ TruthyStr(os_environ.SLACK_CHANNEL_ID)
        /\ ~mock_mode(os_environ)) =>
        Cardinality({k \in DigestSends :
                        /\ sends[k].to = ChannelRef(os_environ.SLACK_CHANNEL_ID)
                        /\ sends[k].content = payload
                        /\ sends[k].result \in {"ok", "fail"}}) = 1

\* C16: with simulate-send on no message of the run (per-owner, digest or
\* error notice) is handed to the Messenger for transmission.
C16_MockTransmitsNothing ==
    mock_mode(os_environ) => sends = <<>>

\* C20: the category map has exactly the five keys, and within a category
\* the records keep the order they had in the input.
C20_KeysAndOrder ==
    /\ DOMAIN categorized = {"expired", "tomorrow", "3_days", "7_days", "future"}
    /\ Returned =>
          \A c \in DOMAIN categorized :
              \A k, l \in 1..Len(categorized[c]) :
                  k < l => categorized[c][k].name < categorized[c][l].name

C20_Witness ==
    /\ Returned
    /\ Len(categorized["tomorrow"]) = 2
    /\ categorized["tomorrow"][1].name = 1
    /\ categorized["tomorrow"][2].name = 2
    /\ Len(categorized["expired"]) = 0

-----------------------------------------------------------------------------
(* Further properties of the classifier                                    *)

\* the categories of the returned map that hold record name
CategoriesOf(name) == {c \in Categories : InCategory(c, name)}

\* the same expiration on a record with another name, tags and user,
\* classified on its own at the same current time
Alone(env) ==
    categorize_by_expiration(
        << [name |-> 0, expirationDate |-> env.expirationDate,
           tags |-> <<Tag("owner", "b@x.com")>>, user |-> ""] >>, now)
CategoriesAlone(env) == {c \in Categories : Len(Alone(env).categories[c]) = 1}

\* C21: classifying the same records at the same current time again gives
\* the same map, and the category of a record is the one its expiration gets
\* when classified on its own, whatever its other fields and the other
\* records are.
C21_Deterministic ==
    Returned =>
        /\ categorized = categorize_by_expiration(environments, now).categories
        /\ \A i \in 1..Len(environments) :
              /\ ~Alone(environments[i]).raised
              /\ CategoriesOf(environments[i].name) = CategoriesAlone(environments[i])
        /\ \A i, j \in 1..Len(environments) :
              environments[i].expirationDate = environments[j].expirationDate
                  => CategoriesOf(environments[i].name) = CategoriesOf(environments[j].name)

C21_Witness ==
    /\ Returned
    /\ Len(environments) = 2
    /\ environments[1].expirationDate = Raw("iso_z", 264, 0)
    /\ environments[2].expirationDate = Raw("iso_z", 240, 0)
    /\ now = 240
    /\ Len(categorized["tomorrow"]) = 2

\* the instant the expiration of the record stored under name denotes
InstantOfName(name) == InstantOfRaw(environments[name].expirationDate)

\* C22: daysUntilExpiration d is the floor of (expiration - now) / 1 day:
\* d days <= expiration - now < d + 1 days, so exactly 2 days ago gives -2
\* and 6 hours ago gives -1.
C22_FloorDays ==
    Returned =>
        \A c \in Categories : \A k \in 1..Len(categorized[c]) :
            LET d == categorized[c][k].daysUntilExpiration
                diff == InstantOfName(categorized[c][k].name) - now
            IN /\ d * Day <= diff
               /\ diff < (d + 1) * Day
               /\ diff = -2 * Day => d = -2
               /\ diff < 0 => d < 0

C22_Witness ==
    /\ Returned
    /\ Len(categorized["expired"]) = 2
    /\ InstantOfName(categorized["expired"][1].name) = now - 2 * Day
    /\ categorized["expired"][1].daysUntilExpiration = -2
    /\ InstantOfName(categorized["expired"][2].name) = now - 6
    /\ categorized["expired"][2].daysUntilExpiration = -1

\* C28: in the returned map a record is in expired iff its
\* daysUntilExpiration is negative; in tomorrow it is 0 or 1, in 3_days 1 to
\* 3, in 7_days 3 to 7, in future at least 7.
C28_CategoryAgreesWithDays ==
    Returned =>
        \A c \in Categories : \A k \in 1..Len(categorized[c]) :
            LET d == categorized[c][k].daysUntilExpiration
            IN /\ c = "expired" <=> d < 0
               /\ c = "tomorrow" => d \in {0, 1}
               /\ c = "3_days" => d \in 1..3
               /\ c = "7_days" => d \in 3..7
               /\ c = "future" => d >= 7

C28_Witness ==
    /\ Returned
    /\ Len(categorized["tomorrow"]) = 1
    /\ categorized["tomorrow"][1].daysUntilExpiration = 1
    /\ Len(categorized["3_days"]) = 1
    /\ categorized["3_days"][1].daysUntilExpiration = 1

-----------------------------------------------------------------------------
(* Further properties of the run                                           *)

PageCalls == {k \in 1..Len(calls) : calls[k].op = "page"}

\* the place of a step in the run
Stage(p) ==
    CASE p = "start" -> 1
      [] p = "fetched" -> 2
      [] p = "personal" -> 3
      [] p = "digest" -> 4
      [] p = "report" -> 5
      [] p = "error_notice" -> 6
      [] p = "done" -> 7

C23_Once ==
    /\ \A k, l \in PageCalls : k # l => calls[k] # calls[l]
    /\ Cardinality(DigestSends) + Len(mock_log) <= 1
    /\ Len(lookups) <= Len(Flat(categorized))
    /\ Cardinality(PersonalSends) <= Len(lookups)

C23_Step ==
    /\ pc # "start" => calls' = calls
    /\ Stage(pc') >= Stage(pc)
    /\ pc' = pc => pos' = pos + 1
    /\ lookups' # lookups =>
          /\ Len(lookups') = Len(lookups) + 1
          /\ pos' = pos + 1 \/ pc' = "error_notice"
    /\ sends' # sends =>
          /\ Len(sends') = Len(sends) + 1
          /\ pos' = pos + 1 \/ Stage(pc') > Stage(pc)

\* C23: within one run each page of a listing is requested at most once,
\* the lookup and the send are attempted at most once for each categorized
\* record and the digest send at most once: a step either moves on to the
\* next record or to a later stage, also after a failure.
C23_NoRetry == [](C23_Once) /\ [][C23_Step]_vars

C23_Witness ==
    /\ pc = "done"
    /\ Cardinality(PageCalls) >= 2
    /\ Len(sends) = 3
    /\ sends[1].what = "personal" /\ sends[1].result = "fail"
    /\ sends[2].what = "personal"
    /\ sends[3].what = "digest" /\ sends[3].result = "TypeError"

\* C24: in one run no owner is sent more than one per-owner message, also
\* when the owner has several environments in the categories before future.
C24_OneMessagePerOwner ==
    \A k, l \in PersonalSends :
        (k # l /\ sends[k].category # "future" /\ sends[l].category # "future")
            => sends[k].to # sends[l].to

\* C25: a run whose classification returned ends failed only because of a
\* configuration error: no error of the recipient lookup or of a send makes
\* the run end failed.
C25_OnlyConfigurationFails ==
    (pc = "done" /\ ~categorize_by_expiration(environments, now).raised) =>
        (outcome = "failed" <=> ~TruthyStr(os_environ.ADE_SUBSCRIPTION_ID))

C26_Kept ==
    pc \in {"personal", "digest", "report"} =>
        categorized = categorize_by_expiration(environments, now).categories

C26_Step ==
    pc \in {"personal", "digest", "report", "error_notice"} => categorized' = categorized

\* C26: the per-owner dispatch and the digest step leave the category map as
\* classification returned it: same records, same fields, same order.
C26_PureRead == [](C26_Kept) /\ [][C26_Step]_vars

C26_Witness ==
    /\ pc = "report"
    /\ Len(categorized["expired"]) = 1
    /\ Len(categorized["3_days"]) = 1
    /\ Len(sends) = 3
    /\ sends[1].result = "fail"
    /\ sends[2].result = "ok"
    /\ sends[3].what = "digest"
    /\ categorized = categorize_by_expiration(environments, now).categories

\* send_slack_notification has returned in this run
DigestReturned == pc = "report" \/ (pc = "done" /\ outcome # "failed")

C29_NoDuplicates ==
    pc = "fetched" =>
        \A i, j \in 1..Len(environments) :
            i # j => environments[i].name # environments[j].name

\* C30: when the DevCenter listing raises, the fetch returns the empty list
\* without raising after that one request, the digest is the 'all healthy'
\* notice, and the run does not end failed.
C30_OutageLooksHealthy ==
    (upstream.devcenters_fail /\ TruthyStr(os_environ.ADE_SUBSCRIPTION_ID)) =>
        /\ ~raised /\ pc # "error_notice" /\ outcome # "failed"
        /\ pc # "start" => (environments = <<>> /\ calls = <<Call("devcenters", 0, 0)>>)
        /\ lookups = <<>> /\ PersonalSends = {} /\ ErrorSends = {}
        /\ (pc \in {"report", "done"} /\ TruthyStr(os_environ.SLACK_CHANNEL_ID)) =>
              /\ payload = <<Healthy>>
              /\ \/ mock_log = <<payload>>
                 \/ \E k \in DigestSends : sends[k].content = payload
        /\ pc = "done" => outcome = "warnings"

C30_Witness ==
    /\ upstream.devcenters_fail
    /\ source # <<>>
    /\ pc = "done"
    /\ mock_log = << <<Healthy>> >>
    /\ outcome = "warnings"

====
